---- MODULE Spec2Model ----
(***************************************************************************)
(* Verification model of the BSD result pipeline:                          *)
(*   src/src/04_renorm_matrix_demo.py  (trial division, matrix demo, save)  *)
(*   src/src/save_utils.py             (serialize_value, result store)      *)
(*   src/src/view_results.py           (load_latest_*, viewer)              *)
(***************************************************************************)
EXTENDS Integers, Sequences, FiniteSets, TLC

VARIABLES
    pc,         \* position of the matrix demo script
    N,          \* 04_renorm_matrix_demo.py: N
    q,          \* 04_renorm_matrix_demo.py: q
    p,          \* 04_renorm_matrix_demo.py: p
    m_primes,   \* 04_renorm_matrix_demo.py: m_primes
    R,          \* 04_renorm_matrix_demo.py: R
    spc,        \* position of a serialize_value call: "call", "returned", "again"
    arg,        \* serialize_value: the argument v
    ret,        \* serialize_value(arg)
    ret2,       \* serialize_value(ret)
    files,      \* the data directory: file name -> content
    now,        \* the wall clock, to the second
    nsaves,     \* the number of saves made so far
    report      \* what the last run of the viewer printed

demoVars == <<pc, N, q, p, m_primes, R>>
serVars == <<spc, arg, ret, ret2>>
storeVars == <<files, now, nsaves, report>>
vars == <<pc, N, q, p, m_primes, R, spc, arg, ret, ret2, files, now, nsaves, report>>

\* ------------------------------------------------------------------ bounds
MaxN == 30      \* largest N given to the demo in SpecFactor
MaxLen == 2     \* longest list, tuple and array given to serialize_value
MaxDay == 2     \* calendar days the clock runs through
MaxSec == 1     \* last second of a day (a day has MaxSec + 1 seconds)
MaxSaves == 3   \* saves made in one run of the model
NegN == 1       \* the demo is given N from -NegN ...
SmallN == 6     \* ... to SmallN when its archive is followed into the store

\* ---------------------------------------------------------------- helpers
Range(s) == {s[i] : i \in 1..Len(s)}

DemoIdle ==
    /\ pc = "idle"
    /\ N = 0 /\ q = 0 /\ p = 0 /\ R = 0
    /\ m_primes = <<>>

\* the viewer has not been run since the last change
NoReport == [shown |-> FALSE]

\* an empty data directory, in the last second of the first day
StoreIdle ==
    /\ files = << >>
    /\ now = [day |-> 1, sec |-> MaxSec]
    /\ nsaves = 0
    /\ report = NoReport

\* ====================================================== Python values
\* A value is a record tagged by its Python type (field t).  Numbers carry an
\* integer n; a float is tagged "float" so that 1 and 1.0 stay distinct.
PyNone == [t |-> "none"]
PyInt(n) == [t |-> "int", n |-> n]
PyFloat(n) == [t |-> "float", n |-> n]
PyStr(s) == [t |-> "str", s |-> s]
PyComplex(re, im) == [t |-> "complex", re |-> re, im |-> im]
NpInt(n) == [t |-> "npint", n |-> n]
NpFloat(n) == [t |-> "npfloat", n |-> n]
NpComplex(re, im) == [t |-> "npcomplex", re |-> re, im |-> im]
PyList(items) == [t |-> "list", items |-> items]
PyTuple(items) == [t |-> "tuple", items |-> items]
PyDict(m) == [t |-> "dict", m |-> m]
NdArray(items) == [t |-> "ndarray", items |-> items]
\* the outcome of a call that raised, and a bound method read as an attribute
Raise == [t |-> "raise"]
BoundMethod == [t |-> "method"]

\* An instance of a foreign class (t = "obj"): base is the builtin value it
\* extends (PyNone for a plain object, a list or a dict for a subclass of
\* these); real and imag are "absent", "field" or "method", numerical_approx
\* is "absent" or "method";
\* flt and int tell whether __float__ and __int__ exist; re, im, ap, fl, in
\* are the numbers those capabilities yield.
IsObj(v) == v.t = "obj"

\* hasattr(v, a) / callable(getattr(v, a)) for a in real, imag, numerical_approx
Attr(v, a) ==
    IF IsObj(v) THEN v[a]
    ELSE IF a \in {"real", "imag"}
              /\ v.t \in {"int", "float", "complex", "npint", "npfloat",
                          "npcomplex", "ndarray"}
         THEN "field"
         ELSE "absent"

\* the number behind attribute a of v
AttrNum(v, a) ==
    IF IsObj(v)
    THEN (IF a = "real" THEN PyFloat(v.re)
          ELSE IF a = "imag" THEN PyFloat(v.im) ELSE PyFloat(v.ap))
    ELSE IF v.t \in {"complex", "npcomplex"}
         THEN (IF a = "real" THEN PyFloat(v.re) ELSE PyFloat(v.im))
         ELSE IF v.t \in {"int", "float", "npint", "npfloat"}
              THEN (IF a = "real" THEN v ELSE PyInt(0))
              ELSE v

\* z.a : the attribute read without a call
GetAttr(z, a) == IF Attr(z, a) = "method" THEN BoundMethod ELSE AttrNum(z, a)

\* z.a() : the attribute called with no argument
CallAttr(z, a) == IF Attr(z, a) = "method" THEN AttrNum(z, a) ELSE Raise

\* hasattr(v, '__float__'), hasattr(v, '__int__')
HasFloat(v) ==
    IF IsObj(v) THEN v.flt
    ELSE v.t \in {"int", "float", "npint", "npfloat", "npcomplex", "ndarray"}

HasInt(v) ==
    IF IsObj(v) THEN v.int
    ELSE v.t \in {"int", "float", "npint", "npfloat", "npcomplex", "ndarray"}

\* float(x), int(x), str(x)
float(x) ==
    IF x.t \in {"int", "float", "npint", "npfloat"} THEN PyFloat(x.n)
    ELSE IF IsObj(x) /\ x.flt THEN PyFloat(x.fl)
    ELSE Raise

int(x) ==
    IF x.t \in {"int", "float", "npint", "npfloat"} THEN PyInt(x.n)
    ELSE IF IsObj(x) /\ x.int THEN PyInt(x.in)
    ELSE Raise

str(x) == IF x.t = "str" THEN x ELSE PyStr("repr")

\* isinstance tests of serialize_value
IsNativeComplex(v) == v.t \in {"complex", "npcomplex"}
IsSequence(v) == v.t \in {"list", "tuple"} \/ (IsObj(v) /\ v.base.t \in {"list", "tuple"})
IsMapping(v) == v.t = "dict" \/ (IsObj(v) /\ v.base.t = "dict")
IsNdArray(v) == v.t = "ndarray"
IsInteger(v) == v.t \in {"int", "npint"}
IsReal(v) == v.t \in {"float", "npfloat"}
Items(v) == IF IsObj(v) THEN v.base.items ELSE v.items
Mapping(v) == IF IsObj(v) THEN v.base.m ELSE v.m

\* {'real': a, 'imag': b}; the dict is not built when a conversion raised
RealImag(a, b) ==
    IF a = Raise \/ b = Raise THEN Raise
    ELSE PyDict(PyStr("real") :> a @@ PyStr("imag") :> b)

\* save_utils.py:16-25
complex_to_dict(z) ==
    IF Attr(z, "real") # "absent" /\ Attr(z, "imag") # "absent"
    THEN IF Attr(z, "real") = "method"
         THEN RealImag(float(CallAttr(z, "real")), float(CallAttr(z, "imag")))
         ELSE RealImag(float(GetAttr(z, "real")), float(GetAttr(z, "imag")))
    ELSE RealImag(float(z), PyFloat(0))

\* ndarray.tolist(): the array as nested lists of Python scalars
RECURSIVE tolist(_)
tolist(a) ==
    IF a.t = "ndarray" THEN PyList([i \in 1..Len(a.items) |-> tolist(a.items[i])])
    ELSE IF a.t = "npint" THEN PyInt(a.n)
    ELSE IF a.t = "npfloat" THEN PyFloat(a.n)
    ELSE PyComplex(a.re, a.im)

\* a list or dict comprehension stops at the first element that raises
ListOf(xs) == IF \E i \in 1..Len(xs) : xs[i] = Raise THEN Raise ELSE PyList(xs)
DictOf(m) == IF \E k \in DOMAIN m : m[k] = Raise THEN Raise ELSE PyDict(m)

\* save_utils.py:27-59
RECURSIVE serialize_value(_)
serialize_value(v) ==
    IF v = PyNone THEN PyNone
    ELSE IF IsNativeComplex(v) THEN complex_to_dict(v)
    ELSE IF Attr(v, "imag") = "method" THEN complex_to_dict(v)
    ELSE IF Attr(v, "numerical_approx") # "absent"
         THEN float(CallAttr(v, "numerical_approx"))
    ELSE IF IsSequence(v)
         THEN ListOf([i \in 1..Len(Items(v)) |-> serialize_value(Items(v)[i])])
    ELSE IF IsMapping(v)
         THEN DictOf([k \in DOMAIN Mapping(v) |-> serialize_value(Mapping(v)[k])])
    ELSE IF IsNdArray(v) THEN tolist(v)
    ELSE IF IsInteger(v) THEN int(v)
    ELSE IF IsReal(v) THEN float(v)
    ELSE IF HasFloat(v) THEN float(v)
    ELSE IF HasInt(v) THEN int(v)
    ELSE str(v)

\* ------------------------------------------------- inputs of serialize_value
Caps == {"absent", "field", "method"}

\* instances of foreign classes, with every combination of capabilities
Objects ==
    {[t |-> "obj", base |-> b, real |-> r, imag |-> i, numerical_approx |-> a,
      flt |-> f, int |-> n, re |-> 1, im |-> 2, ap |-> 3, fl |-> 4, in |-> 5] :
        b \in {PyNone, PyList(<<PyInt(1)>>), PyDict(PyStr("a") :> PyInt(1))},
        r \in Caps, i \in Caps, a \in {"absent", "method"},
        f \in BOOLEAN, n \in BOOLEAN}

NpScalars == {NpInt(1), NpFloat(1), NpComplex(1, 2)}

\* arrays of one dtype: 1-d of length 0..MaxLen, and 2-d with one row
Arrays1 ==
    {NdArray([i \in 1..n |-> x]) : n \in 0..MaxLen, x \in NpScalars}
Arrays == Arrays1 \cup {NdArray(<<a>>) : a \in Arrays1}

Scalars ==
    {PyNone, PyInt(1), PyFloat(1), PyStr("a"), PyComplex(1, 2)} \cup NpScalars

\* what is nested in containers
Leaves ==
    {PyNone, PyInt(1), PyFloat(1), PyStr("a"), PyComplex(1, 2), NpInt(1),
     NdArray(<<NpComplex(1, 2)>>)}
    \cup {o \in Objects : /\ o.base = PyNone /\ o.real \in {"method", "field"}
                          /\ o.imag = "method" /\ o.numerical_approx = "absent"
                          /\ o.flt /\ o.int}

Keys == {PyStr("a"), PyInt(1)}

SeqsUpTo(S, n) == UNION {[1..k -> S] : k \in 0..n}
DictsOver(S) == UNION {[K -> S] : K \in SUBSET Keys}

Containers(S) ==
    {PyList(xs) : xs \in SeqsUpTo(S, MaxLen)}
    \cup {PyTuple(xs) : xs \in SeqsUpTo(S, MaxLen)}
    \cup {PyDict(m) : m \in DictsOver(S)}

\* containers of containers: lists and dicts one level down
Inner ==
    {PyList(<<x>>) : x \in {PyInt(1), PyComplex(1, 2)}}
    \cup {PyDict(k :> x) : k \in Keys, x \in {PyInt(1), PyComplex(1, 2)}}
    \cup {NdArray(<<NpComplex(1, 2)>>)}

Nested == Arrays \cup Containers(Leaves) \cup Containers(Inner)

\* ------------------------------------------- specification: serialize_value
SerIdle == spc = "idle" /\ arg = PyNone /\ ret = PyNone /\ ret2 = PyNone

InitSerialize ==
    /\ spc = "call"
    /\ (arg \in Objects \/ arg \in Scalars \/ arg \in Nested)
    /\ ret = PyNone /\ ret2 = PyNone
    /\ DemoIdle
    /\ StoreIdle

\* w = serialize_value(v)
Serialize ==
    /\ spc = "call"
    /\ ret' = serialize_value(arg)
    /\ spc' = IF ret' = Raise THEN "raised" ELSE "returned"
    /\ UNCHANGED <<arg, ret2>>
    /\ UNCHANGED demoVars
    /\ UNCHANGED storeVars

\* serialize_value(w), the serializer applied to its own output
Reserialize ==
    /\ spc = "returned"
    /\ ret2' = serialize_value(ret)
    /\ spc' = "again"
    /\ UNCHANGED <<arg, ret>>
    /\ UNCHANGED demoVars
    /\ UNCHANGED storeVars

NextSerialize == Serialize \/ Reserialize

SpecSerialize == InitSerialize /\ [][NextSerialize]_vars

\* ------------------------------------------------- claims on serialize_value
Returned == spc \in {"returned", "again"}

RECURSIVE NoNativeComplex(_)
NoNativeComplex(r) ==
    IF r.t \in {"complex", "npcomplex"} THEN FALSE
    ELSE IF r.t \in {"list", "tuple"}
         THEN \A i \in 1..Len(r.items) : NoNativeComplex(r.items[i])
    ELSE IF r.t = "dict" THEN \A k \in DOMAIN r.m : NoNativeComplex(r.m[k])
    ELSE TRUE

RECURSIVE StringKeyed(_)
StringKeyed(r) ==
    IF r.t \in {"list", "tuple"}
    THEN \A i \in 1..Len(r.items) : StringKeyed(r.items[i])
    ELSE IF r.t = "dict"
         THEN \A k \in DOMAIN r.m : k.t = "str" /\ StringKeyed(r.m[k])
    ELSE TRUE

\* the string form of a mapping key
KeyStr(k) == IF k.t = "str" THEN k ELSE PyStr(ToString(k.n))

\* an array as the nested list of its serialized scalars
RECURSIVE SerializedScalars(_)
SerializedScalars(a) ==
    IF a.t = "ndarray"
    THEN PyList([i \in 1..Len(a.items) |-> SerializedScalars(a.items[i])])
    ELSE serialize_value(a)

IsRealImag(r) ==
    /\ r.t = "dict"
    /\ DOMAIN r.m = {PyStr("real"), PyStr("imag")}
    /\ \A k \in DOMAIN r.m : r.m[k].t = "float"

\* the twelve rules of the dispatch ladder, in the order of the specification
Matches(i, v) ==
    CASE i = 1 -> v = PyNone
      [] i = 2 -> IsNativeComplex(v)
      [] i = 3 -> Attr(v, "imag") = "method"
      [] i = 4 -> Attr(v, "numerical_approx") # "absent"
      [] i = 5 -> IsSequence(v)
      [] i = 6 -> IsMapping(v)
      [] i = 7 -> IsNdArray(v)
      [] i = 8 -> IsInteger(v)
      [] i = 9 -> IsReal(v)
      [] i = 10 -> HasFloat(v)
      [] i = 11 -> HasInt(v)
      [] OTHER -> TRUE

FirstRule(v) == CHOOSE i \in 1..12 : Matches(i, v) /\ \A j \in 1..(i - 1) : ~Matches(j, v)

\* what rule i yields
Prescribed(i, r) ==
    CASE i = 1 -> r = PyNone
      [] i \in {2, 3} -> IsRealImag(r)
      [] i \in {4, 9, 10} -> r.t = "float"
      [] i \in {5, 7} -> r.t = "list"
      [] i = 6 -> r.t = "dict"
      [] i \in {8, 11} -> r.t = "int"
      [] OTHER -> r.t = "str"

\* C5: serialize_value is idempotent on its own output: with
\* w = serialize_value(v), serialize_value(w) = w.
C5_Idempotent == spc = "again" => ret2 = ret

\* C6: serialize_value never raises, whatever capabilities its input exposes,
\* and an input matching none of the earlier rules comes back as its text.
C6_Total ==
    /\ spc # "raised"
    /\ (Returned /\ FirstRule(arg) = 12 => ret = str(arg))

\* C8: an array becomes the nested list of its serialized scalars: a complex
\* element becomes a {real, imag} record and no native complex remains.
C8_ArrayScalars ==
    Returned /\ IsNdArray(arg) =>
        ret = SerializedScalars(arg) /\ NoNativeComplex(ret)

\* C9: a mapping comes back as a mapping whose keys, at every depth, are all
\* strings (a key that is no string converted to its string form), with every
\* value serialized.
C9_StringKeys ==
    Returned /\ arg.t = "dict" =>
        /\ ret.t = "dict"
        /\ StringKeyed(ret)
        /\ DOMAIN ret.m = {KeyStr(k) : k \in DOMAIN arg.m}
        /\ \A k \in DOMAIN arg.m : ret.m[KeyStr(k)] = serialize_value(arg.m[k])

\* C10: the first matching rule of the ladder alone decides the result: the
\* result is what that rule yields (a value with a callable imag is a
\* {real, imag} record also when it has numerical_approx, a sequence or mapping
\* with numerical_approx is a float, an integer with a float conversion an int).
C10_FirstRuleWins == spc # "call" /\ spc # "idle" => Prescribed(FirstRule(arg), ret)

\* ========================================================= the result store
\* A file name is the sequence of its '_'-separated segments plus its
\* extension, so that split('_') is indexing.  strftime('%Y%m%d_%H%M%S') gives
\* two segments, the date and the time of day; both are fixed-width,
\* zero-padded digit strings, whose lexical order is the order of the numbers
\* they hold, so a segment holds the number (day, second of the day).
Name(s) == [k |-> "name", s |-> s, n |-> 0]
Num(n) == [k |-> "num", s |-> "", n |-> n]

PrincipalPart == <<Name("principal"), Name("part")>>
GapPoly == <<Name("gap"), Name("poly")>>
BsdComponents == <<Name("bsd"), Name("components")>>
RenormMatrix == <<Name("renorm"), Name("matrix")>>

\* no curve_label (None)
NoLabel == <<>>

\* datetime.now().strftime('%Y%m%d_%H%M%S')
strftime(t) == <<Num(t.day), Num(t.sec)>>

\* the file name with the date segment of the timestamp left out
FileNameNoDate(base, label, t, ext) ==
    [segs |-> (IF label # NoLabel THEN base \o label ELSE base) \o <<Num(t.sec)>>,
     ext |-> ext]

\* save_utils.py:85-89 and 111-112  f"data/{base}[_{label}]_{timestamp}.{ext}"
FileName(base, label, t, ext) ==
    [segs |-> IF label # NoLabel
              THEN base \o label \o strftime(t)
              ELSE base \o strftime(t),
     ext |-> ext]

\* open(filename, 'w') and np.savez(filename): the file is created or replaced
WriteFile(fs, path, content) ==
    [f \in DOMAIN fs \cup {path} |-> IF f = path THEN content ELSE fs[f]]

\* save_utils.py:61-95
save_json_results(filename_base, data, curve_label) ==
    LET content == [kind |-> "json", base |-> filename_base, label |-> curve_label,
                    stamp |-> now, data |-> data,
                    curve |-> IF curve_label # NoLabel THEN curve_label
                              ELSE <<Name("unknown")>>]
        filename == FileName(filename_base, curve_label, now, "json")
    IN  files' = WriteFile(files, filename, content)

\* no metadata argument (None), and an archive without a metadata entry
NoMetadata == [none |-> TRUE]

\* save_utils.py:97-119  (the metadata entry is added only if metadata is given)
save_numpy_results(filename_base, arrays, metadata) ==
    LET content == [kind |-> "npz", base |-> filename_base, label |-> NoLabel,
                    stamp |-> now, arrays |-> arrays,
                    metadata |-> IF metadata # NoMetadata THEN metadata ELSE NoMetadata]
        filename == FileName(filename_base, NoLabel, now, "npz")
    IN  files' = WriteFile(files, filename, content)

\* ------------------------------------------------------------ load_latest
\* glob(pattern) for a pattern f"data/{prefix}_*.{ext}"
glob(pattern) ==
    {f \in DOMAIN files :
        /\ f.ext = pattern.ext
        /\ Len(f.segs) > Len(pattern.prefix)
        /\ SubSeq(f.segs, 1, Len(pattern.prefix)) = pattern.prefix}

\* view_results.py:20, 29  x.split('_')[-1].replace('.json', '')
SortKey(f) == f.segs[Len(f.segs)].n

\* files.sort(key=...); files[-1]: the sort is stable and glob's order is the
\* directory's, so among the files of greatest key any can come last
Last(fs) == {f \in fs : \A g \in fs : SortKey(g) <= SortKey(f)}

Absent == [found |-> FALSE]

\* view_results.py:14-30  load_latest_json, load_latest_npz: every result the
\* call can give (None, or content and path)
load_latest(pattern) ==
    IF glob(pattern) = {} THEN {Absent}
    ELSE {[found |-> TRUE, content |-> files[f], path |-> f] : f \in Last(glob(pattern))}

JsonPattern(kind, curve) == [prefix |-> kind \o curve, ext |-> "json"]
RenormPattern == [prefix |-> RenormMatrix, ext |-> "npz"]

\* ------------------------------------------------------------- the viewer
\* what a section of the report shows of a text-record archive
JsonSection(r) ==
    IF r.found THEN [printed |-> TRUE, fname |-> r.path, data |-> r.content.data]
    ELSE [printed |-> FALSE]

\* view_results.py:112-123  (npz_data['metadata'] raises KeyError when the
\* archive has no metadata entry)
RenormSection(r) ==
    IF ~r.found THEN [printed |-> FALSE]
    ELSE IF r.content.metadata = NoMetadata THEN [printed |-> FALSE, raised |-> TRUE]
    ELSE [printed |-> TRUE, fname |-> r.path,
          N |-> r.content.metadata.N,
          R |-> r.content.metadata.R,
          primes |-> r.content.metadata.multiplicative_primes,
          eigenvalues |-> Len(r.content.arrays.eigenvalues)]

\* view_results.py:44-123  main(curve): every report a run can print now
main(curve) ==
    {[shown |-> TRUE, curve |-> curve,
      principal_part |-> JsonSection(r1), gap_poly |-> JsonSection(r2),
      bsd_components |-> JsonSection(r3), renorm_matrix |-> RenormSection(r4)] :
        r1 \in load_latest(JsonPattern(PrincipalPart, curve)),
        r2 \in load_latest(JsonPattern(GapPoly, curve)),
        r3 \in load_latest(JsonPattern(BsdComponents, curve)),
        r4 \in load_latest(RenormPattern)}

\* ------------------------------------------------------------ the actions
\* the reading one second on; a day ends after second MaxSec
NextSecond(t) ==
    IF t.sec < MaxSec THEN [day |-> t.day, sec |-> t.sec + 1]
    ELSE [day |-> t.day + 1, sec |-> 0]

Later(t, u) == t.day > u.day \/ (t.day = u.day /\ t.sec > u.sec)

JsonKinds == {PrincipalPart, GapPoly, BsdComponents}
Curve37a1 == <<Name("37a1")>>
Labels == {NoLabel, Curve37a1}
Curves == {Curve37a1}

\* the wall clock moves on by a second
Tick ==
    /\ NextSecond(now).day <= MaxDay
    /\ now' = NextSecond(now)
    /\ UNCHANGED <<files, nsaves, report>>
    /\ UNCHANGED demoVars
    /\ UNCHANGED serVars

\* a collaborating pipeline saves a text-record archive
SaveJson(base, label) ==
    /\ save_json_results(base, [results |-> nsaves + 1], label)
    /\ nsaves' = nsaves + 1
    /\ report' = NoReport
    /\ UNCHANGED now
    /\ UNCHANGED demoVars
    /\ UNCHANGED serVars

\* a collaborating script saves a structured archive
SaveNumpy(base, metadata) ==
    /\ save_numpy_results(base, [data |-> nsaves + 1], metadata)
    /\ nsaves' = nsaves + 1
    /\ report' = NoReport
    /\ UNCHANGED now
    /\ UNCHANGED demoVars
    /\ UNCHANGED serVars

\* python3 src/view_results.py [curve]
Viewer(curve) ==
    /\ report' \in main(curve)
    /\ UNCHANGED <<files, now, nsaves>>
    /\ UNCHANGED demoVars
    /\ UNCHANGED serVars

\* ================================================================ the demo
\* 04_renorm_matrix_demo.py:17-21
DemoStart(n) ==
    /\ pc = "idle"
    /\ N' = n
    /\ m_primes' = <<>>
    /\ q' = n
    /\ p' = 2
    /\ R' = 0
    /\ pc' = "outer"
    /\ report' = NoReport
    /\ UNCHANGED <<files, now, nsaves>>
    /\ UNCHANGED serVars

\* 04_renorm_matrix_demo.py:22  while p*p <= q
OuterTest ==
    /\ pc = "outer"
    /\ pc' = IF p * p <= q THEN "inner" ELSE "residual"
    /\ UNCHANGED <<N, q, p, m_primes, R>>
    /\ UNCHANGED serVars
    /\ UNCHANGED storeVars

\* the inner loop body with the membership test dropped
InnerStepDup ==
    /\ pc = "inner"
    /\ IF q % p = 0
       THEN /\ m_primes' = Append(m_primes, p)
            /\ q' = q \div p
            /\ UNCHANGED p
            /\ pc' = "inner"
       ELSE /\ p' = p + 1
            /\ pc' = "outer"
            /\ UNCHANGED <<q, m_primes>>
    /\ UNCHANGED <<N, R>>
    /\ UNCHANGED serVars
    /\ UNCHANGED storeVars

\* 04_renorm_matrix_demo.py:23-26  while q % p == 0: ...; p += 1
InnerStep ==
    /\ pc = "inner"
    /\ IF q % p = 0
       THEN /\ m_primes' = IF p \notin Range(m_primes)
                           THEN Append(m_primes, p) ELSE m_primes
            /\ q' = q \div p
            /\ UNCHANGED p
            /\ pc' = "inner"
       ELSE /\ p' = p + 1
            /\ pc' = "outer"
            /\ UNCHANGED <<q, m_primes>>
    /\ UNCHANGED <<N, R>>
    /\ UNCHANGED serVars
    /\ UNCHANGED storeVars

\* 04_renorm_matrix_demo.py:27-29  if q > 1: append(q); R = 1 + len(m_primes)
Residual ==
    /\ pc = "residual"
    /\ m_primes' = IF q > 1 THEN Append(m_primes, q) ELSE m_primes
    /\ R' = 1 + Len(m_primes')
    /\ pc' = "built"
    /\ UNCHANGED <<N, q, p>>
    /\ UNCHANGED serVars
    /\ UNCHANGED storeVars

\* 04_renorm_matrix_demo.py:30-62  the R x R matrix, its R eigenvalues, the
\* metadata and the save; the script then exits
DemoSave ==
    /\ pc = "built"
    /\ save_numpy_results(RenormMatrix,
                          [matrix |-> [i \in 1..R |-> i], eigenvalues |-> [i \in 1..R |-> i],
                           x_values |-> [i \in 1..R |-> i]],
                          [N |-> N, R |-> R, multiplicative_primes |-> m_primes])
    /\ nsaves' = nsaves + 1
    /\ pc' = "idle"
    /\ N' = 0 /\ q' = 0 /\ p' = 0 /\ R' = 0 /\ m_primes' = <<>>
    /\ UNCHANGED <<now, report>>
    /\ UNCHANGED serVars

\* ------------------------------------------------ specification: factoring
InitFactor ==
    /\ DemoIdle
    /\ SerIdle
    /\ StoreIdle

StartFactor == \E n \in 1..MaxN : DemoStart(n)

NextFactor == StartFactor \/ OuterTest \/ InnerStep \/ Residual

SpecFactor == InitFactor /\ [][NextFactor]_vars /\ WF_vars(NextFactor)

\* ------------------------------------- specification: demo, store and viewer
Init ==
    /\ DemoIdle
    /\ SerIdle
    /\ StoreIdle

\* The steps of a demo run touch only the script's own variables until its
\* save, so a run is followed without other scripts in between.
Next ==
    \/ (pc = "idle" /\ Tick)
    \/ (pc = "idle" /\ nsaves < MaxSaves /\ \E b \in JsonKinds, l \in Labels : SaveJson(b, l))
    \/ (nsaves < MaxSaves /\ \E n \in 1..SmallN : DemoStart(n))
    \/ (nsaves < MaxSaves /\ \E n \in (0 - NegN)..0 : DemoStart(n))
    \/ OuterTest
    \/ InnerStep
    \/ Residual
    \/ DemoSave
    \/ (pc = "idle" /\ \E c \in Curves : Viewer(c))

Spec == Init /\ [][Next]_vars

\* ------------------------------------------------------------- claim C2
IsPrime(n) == n > 1 /\ \A d \in 2..(n - 1) : n % d # 0

PrimeDivisors(n) == {d \in 1..n : IsPrime(d) /\ n % d = 0}

GeneratorSetExact ==
    /\ Range(m_primes) = PrimeDivisors(N)
    /\ \A i \in 1..Len(m_primes) : IsPrime(m_primes[i]) /\ N % m_primes[i] = 0
    /\ \A i, j \in 1..Len(m_primes) : i < j => m_primes[i] < m_primes[j]
    /\ R = 1 + Cardinality(PrimeDivisors(N))
    /\ (N = 1 => m_primes = <<>> /\ R = 1)

\* C2: for every N >= 1 the trial-division loop terminates, and when it has
\* terminated m_primes is exactly the set of distinct prime factors of N, each
\* once, in strictly ascending order (so a residual, appended last, is the
\* largest), and for N = 1 it is empty with R = 1.
C2_GeneratorSet ==
    /\ [](pc = "built" => GeneratorSetExact)
    /\ <>(pc = "built")

C2_Witness == pc = "built" /\ N = 12 /\ q = 3 /\ m_primes = <<2, 3>> /\ R = 3

\* ------------------------------------------ specification: the result store
\* Saves under base names and labels whose texts can join to the same name
\* ("gap_poly" without label, "gap" with label "poly").
StoreBases == {<<Name("gap")>>, GapPoly}
StoreLabels == {NoLabel, <<Name("poly")>>}

NextStore ==
    \/ Tick
    \/ (nsaves < MaxSaves /\ \E b \in StoreBases, l \in StoreLabels : SaveJson(b, l))
    \/ (nsaves < MaxSaves /\ \E m \in {NoMetadata, [N |-> 1]} : SaveNumpy(RenormMatrix, m))

SpecStore == Init /\ [][NextStore]_vars

\* ------------------------------------------------------ claims on the store
\* the timestamp embedded in a file name
Stamp(f) == [day |-> f.segs[Len(f.segs) - 1].n, sec |-> f.segs[Len(f.segs)].n]
ViewerPatterns ==
    {JsonPattern(k, c) : k \in JsonKinds, c \in Curves} \cup {RenormPattern}

\* C1: load_latest returns absent exactly when no file matches, and otherwise
\* the content and path of the matching archive whose embedded timestamp is
\* chronologically greatest, also across calendar days.
C1_LoadsNewest ==
    \A pat \in ViewerPatterns : \A r \in load_latest(pat) :
        /\ (r = Absent) <=> (glob(pat) = {})
        /\ r # Absent =>
              /\ r.path \in glob(pat)
              /\ r.content = files[r.path]
              /\ \A g \in glob(pat) : ~Later(Stamp(g), Stamp(r.path))

\* C3: the store is append-only: no step changes or removes an archive
\* written by an earlier save.
C3_AppendOnly ==
    [][\A f \in DOMAIN files : f \in DOMAIN files' /\ files'[f] = files[f]]_vars

\* the text f"{base}[_{label}]" a save names its archive by
JoinedName(c) == c.base \o c.label

\* C3 as amended: no archive is ever removed, and an archive changes only when
\* a later save has the same base-and-label text, the same format and the same
\* clock reading to the second (it then takes that save's content).
C3_SameNameOnly ==
    [][\A f \in DOMAIN files :
          /\ f \in DOMAIN files'
          /\ files'[f] # files[f] =>
                /\ files'[f].stamp = files[f].stamp
                /\ files'[f].kind = files[f].kind
                /\ JoinedName(files'[f]) = JoinedName(files[f])]_vars

\* three saves of which one replaced an archive of its own name and second,
\* and an older archive of that name is still there
C3_Witness ==
    /\ nsaves = 3
    /\ Cardinality(DOMAIN files) = 2
    /\ \E f, g \in DOMAIN files :
          /\ JoinedName(files[f]) = JoinedName(files[g])
          /\ files[f].kind = files[g].kind
          /\ Later(files[g].stamp, files[f].stamp)

\* C4: for N <= 0 the demo builds no matrix and saves no archive recording
\* that N.
C4_RejectsNonPositive ==
    \A f \in glob(RenormPattern) : files[f].metadata.N >= 1

\* the primes of n in ascending order
RECURSIVE Ascending(_)
Ascending(S) ==
    IF S = {} THEN <<>>
    ELSE LET m == CHOOSE x \in S : \A y \in S : x <= y
         IN  <<m>> \o Ascending(S \ {m})

\* C7: once the demo has saved its archive for some N >= 1 and no
\* renorm_matrix archive is newer, a run of the viewer shows that run's N,
\* R = 1 + the number of distinct primes of N, the primes in order and R
\* eigenvalues, and prints a section for exactly the kinds that have an archive.
C7_EndToEnd ==
    report.shown =>
        \A f \in glob(RenormPattern) :
            (/\ files[f].metadata.N >= 1
             /\ \A g \in glob(RenormPattern) : ~Later(Stamp(g), Stamp(f)))
            =>
            /\ report.renorm_matrix.printed
            /\ report.renorm_matrix.N = files[f].metadata.N
            /\ report.renorm_matrix.R = 1 + Cardinality(PrimeDivisors(files[f].metadata.N))
            /\ report.renorm_matrix.primes = Ascending(PrimeDivisors(files[f].metadata.N))
            /\ report.renorm_matrix.eigenvalues = report.renorm_matrix.R
            /\ report.principal_part.printed
                 <=> glob(JsonPattern(PrincipalPart, report.curve)) # {}
            /\ report.gap_poly.printed
                 <=> glob(JsonPattern(GapPoly, report.curve)) # {}
            /\ report.bsd_components.printed
                 <=> glob(JsonPattern(BsdComponents, report.curve)) # {}

====
